---------------------------- MODULE Spec2Model ----------------------------
(***************************************************************************)
(* Model of the puzzle round engine of src/bot.py (EquationPyramid): the   *)
(* pyramid topology, the expression solver, the puzzle generator and the   *)
(* per-chat round state machine with its two timer tasks.                  *)
(*                                                                         *)
(* One chat is modelled: every table of the store and every dictionary of  *)
(* ENGINE is keyed by chat_id and no operation reads another chat's rows.  *)
(*                                                                         *)
(* Scheduling: handlers of the telegram Application run one update at a    *)
(* time (ApplicationBuilder() keeps concurrent_updates off), so at most    *)
(* one handler is in progress; the timer tasks made by asyncio.create_task *)
(* interleave with it and with each other at every await.  The timer      *)
(* tasks read and write only games.active (and send messages); a handler   *)
(* therefore takes one step for each await at which it reads games.active, *)
(* writes it or touches the timers, and the awaits in between, which touch *)
(* only rows and dictionaries no timer task uses, belong to the step that  *)
(* follows the read.                                                       *)
(*                                                                         *)
(* Numbers: the solver works on Python floats.  They are modelled as exact *)
(* rationals <<n, d>> with d > 0; tolerances 1e-6 and 1e-12 are 10^-k.     *)
(***************************************************************************)
EXTENDS Integers, Sequences, FiniteSets, Bags, TLC

(* ------------------------- configuration (bot.py 22-28) --------------- *)
TIME_LIMIT_DEFAULT == 180
NUM_COUNT == 10
FIRST_CORRECT_POINTS == 2
LATER_CORRECT_POINTS == 1
WRONG_PENALTY == 1
\* find_solution_expr's default tol=1e-6, as the exponent k of 10^-k
TolExp == 6
\* the divisor guard abs(x) > 1e-12 of find_solution_expr, as the exponent
DivGuardExp == 12
\* the reminder fires 60 seconds before the expiry
REMIND_LEAD == 60

(* ------------------------- bounds of the model ------------------------ *)
\* user ids 1..NumPlayers
NumPlayers == 2
\* set_game calls (rounds started) in one behaviour
MaxRounds == 2
\* rounds started plus answers handled (message_handler calls that reach a
\* round) in one behaviour
MaxWork == 4
\* readings of int(time.time()) range over 0..MaxNow
MaxNow == 0
\* /newgame N with N in 0..MaxTotal
MaxTotal == 1
\* sessions started by /newgame in one behaviour
MaxSessions == 1

Players == 1..NumPlayers

\* Number vectors random.randint is taken to draw, and the candidate targets
\* the shuffle is taken to put first (both inside the default ranges 1..10
\* and -50..200 of generate_solvable_puzzle).
SampleNumbers ==
  { <<2, 8, 1, 7, 7, 10, 1, 8, 5, 4>>,
    <<9, 7, 9, 9, 3, 8, 10, 7, 2, 4>> }
SampleTargets == {24}

\* Label triples players send, as index triples (ord(ch) - ord('A')):
\* DEF, GHI, and BAA (a repeated letter, not in sorted order)
SampleLabels == { <<3, 4, 5>>, <<6, 7, 8>>, <<1, 0, 0>> }

(* ------------------------- adjacency topology ------------------------- *)
\* bot.py 313-321, in list order
PRECOMPUTED_TRIPLETS ==
  << <<3, 4, 5>>,
     <<6, 7, 8>>, <<7, 8, 9>>,
     <<0, 1, 3>>, <<1, 3, 6>>, <<2, 4, 7>>,
     <<0, 2, 5>>, <<1, 4, 8>>, <<2, 5, 9>> >>

\* sorted(t) for a 3-tuple of integers
Sorted3(t) ==
  LET lo == IF t[1] <= t[2] /\ t[1] <= t[3] THEN t[1]
            ELSE IF t[2] <= t[3] THEN t[2] ELSE t[3]
      hi == IF t[1] >= t[2] /\ t[1] >= t[3] THEN t[1]
            ELSE IF t[2] >= t[3] THEN t[2] ELSE t[3]
  IN  <<lo, t[1] + t[2] + t[3] - lo - hi, hi>>

PRECOMPUTED_TRIPLETS_SORTED ==
  { Sorted3(PRECOMPUTED_TRIPLETS[k]) : k \in 1..Len(PRECOMPUTED_TRIPLETS) }

enumerate_adjacent_triplet_index_paths == PRECOMPUTED_TRIPLETS

\* chr(ord('A') + i)
Letter(i) == <<"A", "B", "C", "D", "E", "F", "G", "H", "I", "J">>[i + 1]

\* ''.join(chr(ord('A') + i) for i in idxs): a label string, kept as the
\* tuple of its letters
LabelOf(idxs) == <<Letter(idxs[1]), Letter(idxs[2]), Letter(idxs[3])>>

\* a variant of the record key that keeps the letters in input order
InputKey(idxs) == LabelOf(idxs)

\* ''.join(sorted(labels)): letters sort as their indices do
ComboKey(idxs) == LabelOf(Sorted3(idxs))

\* a variant of the adjacency test that does not sort the indices
IsLegalInOrder(idxs) == idxs \in PRECOMPUTED_TRIPLETS_SORTED

IsLegal(idxs) == Sorted3(idxs) \in PRECOMPUTED_TRIPLETS_SORTED

(* ------------------------- rational arithmetic ------------------------ *)
Abs(x) == IF x < 0 THEN -x ELSE x

Rat(n) == <<n, 1>>
RAdd(a, b) == <<a[1] * b[2] + b[1] * a[2], a[2] * b[2]>>
RSub(a, b) == <<a[1] * b[2] - b[1] * a[2], a[2] * b[2]>>
RMul(a, b) == <<a[1] * b[1], a[2] * b[2]>>
\* a / b for b # 0, keeping the denominator positive
RDiv(a, b) ==
  IF b[1] > 0 THEN <<a[1] * b[2], a[2] * b[1]>>
  ELSE <<-(a[1] * b[2]), a[2] * (-b[1])>>
REq(a, b) == a[1] * b[2] = b[1] * a[2]

\* x / d < 10^-k, for x >= 0 and d > 0, without forming 10^k
RECURSIVE BelowPow10(_, _, _)
BelowPow10(x, d, k) ==
  IF x = 0 THEN TRUE
  ELSE IF x >= d THEN FALSE
  ELSE IF k = 0 THEN TRUE
  ELSE BelowPow10(x * 10, d, k - 1)

\* x / d > 10^-k, for x >= 0 and d > 0
RECURSIVE AbovePow10(_, _, _)
AbovePow10(x, d, k) ==
  IF x = 0 THEN FALSE
  ELSE IF x > d THEN TRUE
  ELSE IF k = 0 THEN FALSE
  ELSE AbovePow10(x * 10, d, k - 1)

\* abs(a - b) < 10^-k
RNear(a, b, k) ==
  LET diff == RSub(a, b) IN BelowPow10(Abs(diff[1]), diff[2], k)

\* abs(a) > 10^-k
RAbsAbove(a, k) == AbovePow10(Abs(a[1]), a[2], k)


(* ------------------------- expression solver -------------------------- *)
\* Optional[str]: None is <<>>, an expression e is <<e>>.  An expression
\* string is fully parenthesised, so it is kept as its tree: the token
\* str(n) is <<"num", n>> and f"({ea}+{eb})" is <<"+", ea, eb>>.
None == <<>>
Some(e) == <<e>>
Num(n) == <<"num", n>>

\* [s[k] for k in range(n) if k != i and k != j], 1-based
RECURSIVE Without(_, _, _)
Without(s, i, j) ==
  IF s = <<>> THEN <<>>
  ELSE IF i = 1 \/ j = 1 THEN Without(Tail(s), i - 1, j - 1)
  ELSE <<Head(s)>> \o Without(Tail(s), i - 1, j - 1)

\* a variant of the candidates list that tries the product before the sum
CandidatesMulFirst(a, b, ea, eb) ==
  << <<RMul(a, b), <<"*", ea, eb>> >>,
     <<RAdd(a, b), <<"+", ea, eb>> >>,
     <<RSub(a, b), <<"-", ea, eb>> >>,
     <<RSub(b, a), <<"-", eb, ea>> >> >>
  \o (IF RAbsAbove(b, DivGuardExp)
        THEN << <<RDiv(a, b), <<"/", ea, eb>> >> >> ELSE <<>>)
  \o (IF RAbsAbove(a, DivGuardExp)
        THEN << <<RDiv(b, a), <<"/", eb, ea>> >> >> ELSE <<>>)

\* a variant of the candidates list without b - a
CandidatesNoReverse(a, b, ea, eb) ==
  << <<RAdd(a, b), <<"+", ea, eb>> >>,
     <<RMul(a, b), <<"*", ea, eb>> >>,
     <<RSub(a, b), <<"-", ea, eb>> >> >>
  \o (IF RAbsAbove(b, DivGuardExp)
        THEN << <<RDiv(a, b), <<"/", ea, eb>> >> >> ELSE <<>>)
  \o (IF RAbsAbove(a, DivGuardExp)
        THEN << <<RDiv(b, a), <<"/", eb, ea>> >> >> ELSE <<>>)

\* the candidates list of bot.py 627-635, in order, for the pair (a, b)
Candidates(a, b, ea, eb) ==
  << <<RAdd(a, b), <<"+", ea, eb>> >>,
     <<RMul(a, b), <<"*", ea, eb>> >>,
     <<RSub(a, b), <<"-", ea, eb>> >>,
     <<RSub(b, a), <<"-", eb, ea>> >> >>
  \o (IF RAbsAbove(b, DivGuardExp)
        THEN << <<RDiv(a, b), <<"/", ea, eb>> >> >> ELSE <<>>)
  \o (IF RAbsAbove(a, DivGuardExp)
        THEN << <<RDiv(b, a), <<"/", eb, ea>> >> >> ELSE <<>>)

\* the pairs (i, j), i < j, in the order of the two for loops (1-based)
RECURSIVE PairsFrom(_, _, _)
PairsFrom(i, j, n) ==
  IF i >= n THEN <<>>
  ELSE IF j > n THEN PairsFrom(i + 1, i + 2, n)
  ELSE <<<<i, j>>>> \o PairsFrom(i, j + 1, n)

RECURSIVE find_solution_expr(_, _, _, _)
RECURSIVE TryCandidates(_, _, _, _, _, _)
RECURSIVE TryPairs(_, _, _, _, _, _)

\* for val, expr in candidates: recurse, return the first result
TryCandidates(cands, c, next_nums, next_exprs, target, tol) ==
  IF c > Len(cands) THEN None
  ELSE LET res == find_solution_expr(next_nums \o <<cands[c][1]>>,
                                     next_exprs \o <<cands[c][2]>>,
                                     target, tol)
       IN  IF res # None THEN res
           ELSE TryCandidates(cands, c + 1, next_nums, next_exprs, target, tol)

\* the two for loops over i and j
TryPairs(pairs, p, nums, exprs, target, tol) ==
  IF p > Len(pairs) THEN None
  ELSE LET i == pairs[p][1]
           j == pairs[p][2]
           res == TryCandidates(Candidates(nums[i], nums[j], exprs[i], exprs[j]),
                                1, Without(nums, i, j), Without(exprs, i, j),
                                target, tol)
       IN  IF res # None THEN res
           ELSE TryPairs(pairs, p + 1, nums, exprs, target, tol)

\* nums: rationals; exprs: expression trees; target: rational; tol: exponent
find_solution_expr(nums, exprs, target, tol) ==
  IF Len(nums) = 1
    THEN IF RNear(nums[1], target, tol) THEN Some(exprs[1]) ELSE None
    ELSE TryPairs(PairsFrom(1, 2, Len(nums)), 1, nums, exprs, target, tol)

\* the call made for one index path: vals = float(numbers[i]),
\* exprs = str(numbers[i]), target float(target)  (bot.py 863-865, 246-248)
SolvePath(numbers, path, target) ==
  find_solution_expr([k \in 1..Len(path) |-> Rat(numbers[path[k] + 1])],
                     [k \in 1..Len(path) |-> Num(numbers[path[k] + 1])],
                     Rat(target), TolExp)

\* a variant of the table that stops at the first path with a solution
FirstHitOnly(numbers, target) ==
  LET paths == enumerate_adjacent_triplet_index_paths
      hit == { k \in 1..Len(paths) : SolvePath(numbers, paths[k], target) # None }
      first == { k \in hit : \A o \in hit : k <= o }
  IN  [ lab \in { LabelOf(paths[k]) : k \in first } |->
          LET k == CHOOSE k \in first : LabelOf(paths[k]) = lab
          IN  SolvePath(numbers, paths[k], target)[1] ]

\* The all_solutions dictionary of cmd_new: label -> expression for every
\* path with a solution, as a function on the set of its keys.
AllSolutions(numbers, target) ==
  LET paths == enumerate_adjacent_triplet_index_paths
      hit == { k \in 1..Len(paths) : SolvePath(numbers, paths[k], target) # None }
      keys == { LabelOf(paths[k]) : k \in hit }
  IN  [ lab \in keys |->
          LET k == CHOOSE k \in hit : LabelOf(paths[k]) = lab
          IN  SolvePath(numbers, paths[k], target)[1] ]

(* ------------------------- puzzle generator --------------------------- *)
\* tries=2000 of generate_solvable_puzzle
Tries == 2000

\* next(iter(all_solutions.items())): the first path, in list order, that
\* has a solution; f"[{first_label}] {first_expr}" as a record
FirstSolution(numbers, target) ==
  LET paths == enumerate_adjacent_triplet_index_paths
      hit == { k \in 1..Len(paths) : SolvePath(numbers, paths[k], target) # None }
      k == CHOOSE m \in hit : \A o \in hit : m <= o
  IN  [label |-> LabelOf(paths[k]), expr |-> SolvePath(numbers, paths[k], target)[1]]

\* The possible results of generate_solvable_puzzle when random.randint
\* draws a vector of `draws` and the candidate targets are `targets`: the
\* shuffle makes any target that some path solves the first one found; the
\* fallback is reached when every one of the `tries` draws has no such target.
generate_solvable_puzzle(draws, targets, tries) ==
  LET solvable(n) ==
        { t \in targets :
            \E k \in 1..Len(enumerate_adjacent_triplet_index_paths) :
              SolvePath(n, enumerate_adjacent_triplet_index_paths[k], t) # None }
      found ==
        UNION { { [numbers |-> n, target |-> t, solution |-> FirstSolution(n, t)]
                  : t \in solvable(n) } : n \in draws }
      exhausted == tries = 0 \/ \E n \in draws : solvable(n) = {}
      fallback ==
        { [numbers |-> n, target |-> n[1] + n[2] + n[3],
           solution |-> [label |-> <<"A", "B", "C">>,
                         expr |-> <<"sum3", Num(n[1]), Num(n[2]), Num(n[3])>>]]
          : n \in draws }
  IN  (IF tries > 0 THEN found ELSE {}) \cup (IF exhausted THEN fallback ELSE {})

\* the puzzles a round start can get
GeneratedPuzzles == generate_solvable_puzzle(SampleNumbers, SampleTargets, Tries)

\* each puzzle cmd_new can get, with the all_solutions table it builds for it
PuzzleTables ==
  { [puzzle |-> p, all_solutions |-> AllSolutions(p.numbers, p.target)]
      : p \in GeneratedPuzzles }

(* ------------------------- state -------------------------------------- *)
VARIABLES
  game,        \* the chat's row of table games (exists = FALSE: no row)
  answers,     \* the chat's rows of table answers, a bag of rows
  scores,      \* the chat's rows of table scores: user_id -> score
  session,     \* the chat's row of table sessions
  now,         \* the last reading of int(time.time())
  valid,       \* ENGINE.chat_to_valid_combos[chat] (absent: empty)
  solved,      \* ENGINE.chat_to_solved[chat]
  chat_tasks,            \* ENGINE.chat_tasks[chat]: task id, 0 when absent
  chat_reminder_tasks,   \* ENGINE.chat_reminder_tasks[chat]
  endPc,       \* position of each engine_schedule_end task
  endGame,     \* its local `game`: the round of the row it read
  remPc,       \* position of each schedule_reminder task
  hpc,         \* position of the handler in progress, "idle" when none
  h,           \* its local variables
  replies,     \* messages the handler in progress has sent
  summaries,   \* per round: terminal summaries sent about it
  stale,       \* what a timer did after its round was superseded
  credited,    \* <<user, key>> pairs awarded points in the current round
  roundNo,     \* rounds started so far; the id of the current row and timers
  submits,     \* answers handled so far
  sessions     \* /newgame commands handled so far

storeVars == <<game, answers, scores, session, now>>
engineVars == <<valid, solved, chat_tasks, chat_reminder_tasks>>
taskVars == <<endPc, endGame, remPc>>
handlerVars == <<hpc, h, replies>>
obsVars == <<summaries, stale, credited, roundNo, submits, sessions>>
vars == <<storeVars, engineVars, taskVars, handlerVars, obsVars>>

Rounds == 1..MaxRounds

NoGame ==
  [exists |-> FALSE, numbers |-> <<>>, target |-> 0, expires_at |-> 0,
   active |-> FALSE, solution |-> <<>>, round |-> 0]
NoSession == [exists |-> FALSE, total_rounds |-> 0, current_round |-> 0, active |-> 0]
NoLocals ==
  [cmd |-> "none", user |-> 0, idxs |-> <<>>, sess |-> NoSession, game |-> NoGame,
   puzzle |-> <<>>, total |-> 0, points |-> 0, score0 |-> 0]

(* ------------------------- store helpers ------------------------------ *)
\* int(time.time()): the clock never runs backwards
TimeReads == { t \in now..(now + 1) : t <= MaxNow }

\* a variant of the test that looks only at the presence of the row
RowMissing(g) == ~g.exists

\* a variant of the test that reads the active flag the wrong way round
FlagInverted(g) == ~g.exists \/ g.active

\* `if not game or not game["active"]`
Inactive(g) == ~g.exists \/ ~g.active

set_game(numbers, target, expires_at, solution, id) ==
  [exists |-> TRUE, numbers |-> numbers, target |-> target,
   expires_at |-> expires_at, active |-> TRUE, solution |-> solution, round |-> id]

\* UPDATE games SET active=0 WHERE chat_id=?  (no row: nothing to update)
end_game_db(g) == IF g.exists THEN [g EXCEPT !.active = FALSE] ELSE g

\* INSERT INTO answers(...): the table is a bag of rows
add_answer_record(ans, user_id, expression, correct, ts) ==
  ans (+) SetToBag({[user_id |-> user_id, expression |-> expression,
                     correct |-> correct, ts |-> ts]})

\* a variant of clear_answers_for_chat that deletes nothing
keep_answers_for_chat(ans) == ans

\* DELETE FROM answers WHERE chat_id=?
clear_answers_for_chat(ans) == EmptyBag

\* SELECT COUNT(*) ... WHERE correct=1
count_correct_answers(ans) ==
  BagCardinality([row \in { x \in BagToSet(ans) : x.correct = 1 } |-> ans[row]])

\* ORDER BY ts ASC LIMIT 1: the user of any row of the least ts; the set of
\* values the query can return, {} when it returns None
get_combo_first_solver(ans, combo_key) ==
  LET rows == { x \in BagToSet(ans) : x.expression = combo_key /\ x.correct = 1 }
  IN  { x.user_id : x \in { m \in rows : \A o \in rows : m.ts <= o.ts } }

\* SELECT DISTINCT expression FROM answers WHERE chat_id=? AND correct=1
get_solved_combo_keys(ans) ==
  { x.expression : x \in { y \in BagToSet(ans) : y.correct = 1 } }

\* a variant of user_already_correct_combo that never finds a row
never_already_correct_combo(ans, user_id, combo_key) == FALSE

user_already_correct_combo(ans, user_id, combo_key) ==
  \E x \in BagToSet(ans) :
    x.user_id = user_id /\ x.expression = combo_key /\ x.correct = 1

\* a variant of add_score that updates existing rows only
add_score_rows_only(sc, user_id, delta) ==
  IF user_id \in DOMAIN sc THEN [sc EXCEPT ![user_id] = sc[user_id] + delta] ELSE sc

\* the scores table after add_score(user_id, delta)
add_score(sc, user_id, delta) ==
  IF user_id \in DOMAIN sc
    THEN [sc EXCEPT ![user_id] = sc[user_id] + delta]
    ELSE [u \in DOMAIN sc \cup {user_id} |-> IF u = user_id THEN delta ELSE sc[u]]

get_user_score(sc, user_id) == IF user_id \in DOMAIN sc THEN sc[user_id] ELSE 0

NoScores == [u \in {} |-> 0]

\* INSERT OR REPLACE INTO sessions(...) VALUES (?, ?, 0, 1)
start_session(total_rounds) ==
  [exists |-> TRUE, total_rounds |-> total_rounds, current_round |-> 0, active |-> 1]

\* a variant that leaves the round counter as it is
set_session_round_keep(s, current_round) == s

set_session_round(s, current_round) ==
  IF s.exists THEN [s EXCEPT !.current_round = current_round] ELSE s

end_session(s) == IF s.exists THEN [s EXCEPT !.active = 0] ELSE s

(* ------------------------- GameEngine and timers ---------------------- *)
\* a task that is neither finished nor cancelled
Live(pc) == pc \in {"sleep", "woke", "checked", "ended"}
\* "none": not created; "noop": returned at the check of the active flag and
\* still held by the engine's dictionary; "off": returned after its last
\* message, or cancelled (CancelledError caught), or finished and dropped
\* from the dictionary

\* task.cancel() on the task the dictionary holds, which then lets go of it:
\* CancelledError at the task's await, caught, return; nothing happens to a
\* task that has finished
Cancel(pcs, id) ==
  IF id # 0 THEN [pcs EXCEPT ![id] = "off"] ELSE pcs

TimerState == [endPc |-> endPc, remPc |-> remPc,
               chat_tasks |-> chat_tasks, chat_reminder_tasks |-> chat_reminder_tasks]

Max(a, b) == IF a >= b THEN a ELSE b

\* a variant of engine_set_timer that arms the tasks `id` and leaves the
\* tasks the dictionaries held running
engine_set_timer_no_cancel(t, id) ==
  LET remind_delay == Max(0, TIME_LIMIT_DEFAULT - REMIND_LEAD)
  IN  [endPc |-> [t.endPc EXCEPT ![id] = "sleep"],
       chat_tasks |-> id,
       remPc |-> IF remind_delay > 0 THEN [t.remPc EXCEPT ![id] = "sleep"] ELSE t.remPc,
       chat_reminder_tasks |-> IF remind_delay > 0 THEN id ELSE t.chat_reminder_tasks]

\* a variant of engine_set_timer that cancels the old tasks and arms the
\* reminder only
engine_set_timer_unarmed(t, id) ==
  LET remind_delay == Max(0, TIME_LIMIT_DEFAULT - REMIND_LEAD)
      rems == Cancel(t.remPc, t.chat_reminder_tasks)
  IN  [endPc |-> Cancel(t.endPc, t.chat_tasks),
       chat_tasks |-> 0,
       remPc |-> IF remind_delay > 0 THEN [rems EXCEPT ![id] = "sleep"] ELSE rems,
       chat_reminder_tasks |-> IF remind_delay > 0 THEN id ELSE t.chat_reminder_tasks]

\* engine_set_timer: the timer state after arming the tasks `id`
engine_set_timer(t, id) ==
  LET remind_delay == Max(0, TIME_LIMIT_DEFAULT - REMIND_LEAD)
      ends == [Cancel(t.endPc, t.chat_tasks) EXCEPT ![id] = "sleep"]
      rems == Cancel(t.remPc, t.chat_reminder_tasks)
  IN  [endPc |-> ends,
       chat_tasks |-> id,
       remPc |-> IF remind_delay > 0 THEN [rems EXCEPT ![id] = "sleep"] ELSE rems,
       chat_reminder_tasks |-> IF remind_delay > 0 THEN id ELSE t.chat_reminder_tasks]

\* a variant of engine_cancel_timers that pops the tasks without cancel()
engine_pop_timers(t) ==
  [endPc |-> t.endPc, chat_tasks |-> 0, remPc |-> t.remPc, chat_reminder_tasks |-> 0]

\* a variant of engine_cancel_timers that cancels and removes the expiry
\* task only
engine_cancel_expiry_only(t) ==
  [endPc |-> Cancel(t.endPc, t.chat_tasks),
   chat_tasks |-> 0,
   remPc |-> t.remPc,
   chat_reminder_tasks |-> t.chat_reminder_tasks]

\* engine_cancel_timers
engine_cancel_timers(t) ==
  [endPc |-> Cancel(t.endPc, t.chat_tasks),
   chat_tasks |-> 0,
   remPc |-> Cancel(t.remPc, t.chat_reminder_tasks),
   chat_reminder_tasks |-> 0]

SetTimers(t) ==
  /\ endPc' = t.endPc
  /\ remPc' = t.remPc
  /\ chat_tasks' = t.chat_tasks
  /\ chat_reminder_tasks' = t.chat_reminder_tasks

\* GameEngine.all_solved
all_solved(slv, vld) ==
  Cardinality(slv) >= Cardinality(DOMAIN vld) /\ Cardinality(DOMAIN vld) > 0

Init ==
  /\ game = NoGame
  /\ answers = EmptyBag
  /\ scores = NoScores
  /\ session = NoSession
  /\ now = 0
  /\ valid = <<>>
  /\ solved = {}
  /\ chat_tasks = 0
  /\ chat_reminder_tasks = 0
  /\ endPc = [r \in Rounds |-> "none"]
  /\ endGame = [r \in Rounds |-> 0]
  /\ remPc = [r \in Rounds |-> "none"]
  /\ hpc = "idle"
  /\ h = NoLocals
  /\ replies = <<>>
  /\ summaries = [r \in Rounds |-> [timeup |-> 0, solved |-> 0]]
  /\ stale = {}
  /\ credited = {}
  /\ roundNo = 0
  /\ submits = 0
  /\ sessions = 0

(* ------------------------- engine_schedule_end ------------------------ *)
\* what a timer of round r did when a later round had already started
StaleMark(kind, r) ==
  IF roundNo > r THEN stale \cup {[kind |-> kind, task |-> r, at |-> roundNo]}
  ELSE stale

\* await asyncio.sleep(delay) returns and game = await get_game(chat_id) is
\* read; `if not game or not game["active"]: return`.  The reminder of the
\* same round has the earlier deadline (120 s against 180 s from the same
\* call of engine_set_timer), so its sleep has returned or it was cancelled.
ExpiryCheck(r) ==
  /\ endPc[r] = "sleep"
  /\ remPc[r] # "sleep"
  /\ IF Inactive(game)
       THEN endPc' = [endPc EXCEPT ![r] = "noop"] /\ UNCHANGED endGame
       ELSE /\ endPc' = [endPc EXCEPT ![r] = "checked"]
            /\ endGame' = [endGame EXCEPT ![r] = game.round]
  /\ UNCHANGED <<storeVars, engineVars, remPc, handlerVars, obsVars>>

\* await end_game_db(chat_id)
ExpiryEnd(r) ==
  /\ endPc[r] = "checked"
  /\ game' = end_game_db(game)
  /\ endPc' = [endPc EXCEPT ![r] = "ended"]
  /\ stale' = IF game.active THEN StaleMark("deactivate", r) ELSE stale
  /\ UNCHANGED <<answers, scores, session, now, engineVars, endGame, remPc,
                 handlerVars, summaries, credited, roundNo, submits, sessions>>

\* get_leaderboard, then send_message(MSG_TIME_UP ... game['numbers'] ...):
\* the summary is about the row read at the check
ExpirySend(r) ==
  /\ endPc[r] = "ended"
  /\ summaries' = [summaries EXCEPT ![endGame[r]].timeup = @ + 1]
  /\ stale' = StaleMark("timeup", r)
  /\ endPc' = [endPc EXCEPT ![r] = "off"]
  /\ UNCHANGED <<storeVars, engineVars, endGame, remPc, handlerVars,
                 credited, roundNo, submits, sessions>>

(* ------------------------- schedule_reminder -------------------------- *)
\* await asyncio.sleep(delay) returns
ReminderWake(r) ==
  /\ remPc[r] = "sleep"
  /\ remPc' = [remPc EXCEPT ![r] = "woke"]
  /\ UNCHANGED <<storeVars, engineVars, endPc, endGame, handlerVars, obsVars>>

\* game = await get_game(chat_id); if not game or not game["active"]: return
ReminderCheck(r) ==
  /\ remPc[r] = "woke"
  /\ remPc' = [remPc EXCEPT ![r] = IF Inactive(game) THEN "noop" ELSE "checked"]
  /\ UNCHANGED <<storeVars, engineVars, endPc, endGame, handlerVars, obsVars>>

\* send_message(MSG_ONE_MIN_REMAINING)
ReminderSend(r) ==
  /\ remPc[r] = "checked"
  /\ stale' = StaleMark("reminder", r)
  /\ remPc' = [remPc EXCEPT ![r] = "off"]
  /\ UNCHANGED <<storeVars, engineVars, endPc, endGame, handlerVars,
                 summaries, credited, roundNo, submits, sessions>>

(* ------------------------- handlers: shared steps --------------------- *)
\* no handler is in progress: the Application takes the next update
Free == hpc \in {"idle", "done"}

Reply(code) == replies' = Append(replies, code)

(* ------------------------- cmd_new ------------------------------------ *)
\* a variant of the round-count test with > for >=
SessionOverrun(s) ==
  s.exists /\ s.active = 1 /\ s.current_round > s.total_rounds

\* `if sess and sess["active"]` and `current_round >= total_rounds`
SessionComplete(s) ==
  s.exists /\ s.active = 1 /\ s.current_round >= s.total_rounds

\* /new arrives: sess = await get_session(chat_id) and the round-count test;
\* game = await get_game(chat_id) and the refusal of a round in progress;
\* else the puzzle is generated, the answers of the chat are cleared,
\* set_game, with an active session set_session_round(chat_id,
\* sess["current_round"] + 1), and the table of all solutions goes to
\* ENGINE.set_valid_combos, which empties the solved set.
NewCommand ==
  /\ Free
  /\ h' = NoLocals
  /\ IF SessionComplete(session)
       THEN /\ replies' = <<"session_complete">>
            /\ hpc' = "done"
            /\ UNCHANGED <<storeVars, valid, solved, credited, roundNo>>
       ELSE IF ~Inactive(game)
       THEN /\ replies' = <<"in_progress">>
            /\ hpc' = "done"
            /\ UNCHANGED <<storeVars, valid, solved, credited, roundNo>>
       ELSE /\ roundNo < MaxRounds
            /\ roundNo + submits < MaxWork
            /\ replies' = <<>>
            /\ hpc' = "new_send"
            /\ answers' = clear_answers_for_chat(answers)
            /\ \E pt \in PuzzleTables, t \in TimeReads :
                 /\ now' = t
                 /\ game' = set_game(pt.puzzle.numbers, pt.puzzle.target,
                                     t + TIME_LIMIT_DEFAULT, pt.puzzle.solution,
                                     roundNo + 1)
                 /\ valid' = pt.all_solutions
            /\ session' = IF session.exists /\ session.active = 1
                            THEN set_session_round(session, session.current_round + 1)
                            ELSE session
            /\ solved' = {}
            /\ credited' = {}
            /\ roundNo' = roundNo + 1
            /\ UNCHANGED scores
  /\ UNCHANGED <<chat_tasks, chat_reminder_tasks, taskVars,
                 summaries, stale, submits, sessions>>

\* the question is sent, then engine_set_timer(chat_id, context)
NewSend ==
  /\ hpc = "new_send"
  /\ Reply("question")
  /\ SetTimers(engine_set_timer(TimerState, roundNo))
  /\ hpc' = "done"
  /\ UNCHANGED <<storeVars, valid, solved, endGame, h, obsVars>>

(* ------------------------- cmd_end ------------------------------------ *)
\* /end arrives: game = await get_game(chat_id)
EndCommand ==
  /\ Free
  /\ IF Inactive(game)
       THEN replies' = <<"no_active_game">> /\ hpc' = "done" /\ h' = NoLocals
       ELSE /\ replies' = <<>>
            /\ hpc' = "end_end"
            /\ h' = [NoLocals EXCEPT !.cmd = "end", !.game = game]
  /\ UNCHANGED <<storeVars, engineVars, taskVars, obsVars>>

\* await end_game_db(chat_id)
EndEnd ==
  /\ hpc = "end_end"
  /\ game' = end_game_db(game)
  /\ hpc' = "end_cancel"
  /\ UNCHANGED <<answers, scores, session, now, engineVars, taskVars, h, replies,
                 obsVars>>

\* await engine_cancel_timers(chat_id); then MSG_TERMINATED with
\* game.get("solution") of the row read at the start
EndCancel ==
  /\ hpc = "end_cancel"
  /\ SetTimers(engine_cancel_timers(TimerState))
  /\ Reply("terminated")
  /\ hpc' = "done"
  /\ h' = NoLocals
  /\ UNCHANGED <<storeVars, valid, solved, endGame, obsVars>>

(* ------------------------- cmd_newgame, cmd_endgame ------------------- *)
\* /newgame N: N <= 0 gets the usage text; else start_session replaces the
\* session row and deletes the chat's scores
NewGameCommand(total) ==
  /\ Free
  /\ sessions < MaxSessions
  /\ h' = NoLocals
  /\ IF total <= 0
       THEN replies' = <<"usage">> /\ UNCHANGED <<session, scores, sessions>>
       ELSE /\ replies' = <<"newgame_intro">>
            /\ session' = start_session(total)
            /\ scores' = NoScores
            /\ sessions' = sessions + 1
  /\ hpc' = "done"
  /\ UNCHANGED <<game, answers, now, engineVars, taskVars,
                 summaries, stale, credited, roundNo, submits>>

\* /endgame arrives: sess = await get_session(chat_id); game = await
\* get_game(chat_id); with no round in progress end_session and the final
\* leaderboard follow
EndGameCommand ==
  /\ Free
  /\ IF ~session.exists \/ session.active = 0
       THEN /\ replies' = <<"no_active_session">>
            /\ hpc' = "done"
            /\ h' = NoLocals
            /\ UNCHANGED session
       ELSE IF Inactive(game)
       THEN /\ session' = end_session(session)
            /\ replies' = <<"final_leaderboard">>
            /\ hpc' = "done"
            /\ h' = NoLocals
       ELSE /\ replies' = <<>>
            /\ hpc' = "eg_end"
            /\ h' = [NoLocals EXCEPT !.cmd = "endgame"]
            /\ UNCHANGED session
  /\ UNCHANGED <<game, answers, scores, now, engineVars, taskVars, obsVars>>

\* await end_game_db(chat_id)
EndGameEnd ==
  /\ hpc = "eg_end"
  /\ game' = end_game_db(game)
  /\ hpc' = "eg_cancel"
  /\ UNCHANGED <<answers, scores, session, now, engineVars, taskVars, h, replies,
                 obsVars>>

\* await engine_cancel_timers(chat_id); MSG_SYNC_ENDED; end_session; the
\* final leaderboard
EndGameCancel ==
  /\ hpc = "eg_cancel"
  /\ SetTimers(engine_cancel_timers(TimerState))
  /\ session' = end_session(session)
  /\ replies' = replies \o <<"sync_ended", "final_leaderboard">>
  /\ hpc' = "done"
  /\ h' = NoLocals
  /\ UNCHANGED <<game, answers, scores, now, valid, solved, endGame, obsVars>>

(* ------------------------- message_handler ---------------------------- *)
\* A text of three letters A-J arrives from `user`: game = await get_game,
\* the regular expression, the adjacency test.  An illegal triple gets
\* add_answer_record(chat_id, user.id, ''.join(sorted(labels)), 0) and the
\* reply that the three points are not adjacent; a legal one goes to
\* check_answer, which reads the game again and returns when it is not active.
SubmitCommand(user, idxs) ==
  /\ Free
  /\ roundNo + submits < MaxWork
  /\ IF Inactive(game)
       THEN /\ replies' = <<>>
            /\ hpc' = "done"
            /\ h' = NoLocals
            /\ UNCHANGED <<submits, answers, now>>
       ELSE IF ~IsLegal(idxs)
       THEN /\ submits' = submits + 1
            /\ \E t \in TimeReads :
                 /\ now' = t
                 /\ answers' = add_answer_record(answers, user, ComboKey(idxs), 0, t)
            /\ replies' = <<"illegal_adjacency">>
            /\ hpc' = "done"
            /\ h' = [NoLocals EXCEPT !.cmd = "submit", !.user = user, !.idxs = idxs,
                                     !.score0 = get_user_score(scores, user)]
       ELSE /\ submits' = submits + 1
            /\ replies' = <<>>
            /\ hpc' = "chk_apply"
            /\ h' = [NoLocals EXCEPT !.cmd = "submit", !.user = user, !.idxs = idxs,
                                     !.score0 = get_user_score(scores, user),
                                     !.game = game]
            /\ UNCHANGED <<answers, now>>
  /\ UNCHANGED <<game, scores, session, engineVars, taskVars,
                 summaries, stale, credited, roundNo, sessions>>

(* ------------------------- EngineFacade.check_answer ------------------ *)
\* a variant of the lookup without the direct call of the solver
LookupCacheOnly(vld, numbers, target, idxs) ==
  IF LabelOf(idxs) \in DOMAIN vld THEN Some(vld[LabelOf(idxs)]) ELSE None

\* cache.get(key_label) with the labels in input order, else a direct call
\* of the solver on the values in input order
LookupSolution(vld, numbers, target, idxs) ==
  IF LabelOf(idxs) \in DOMAIN vld THEN Some(vld[LabelOf(idxs)])
  ELSE SolvePath(numbers, idxs, target)

\* `sol is None` after the cache lookup and the direct call
NoSolution ==
  LookupSolution(valid, h.game.numbers, h.game.target, h.idxs) = None

\* lines 249-253: the record, the penalty, MSG_WRONG_ANSWER
ChkWrong ==
  /\ hpc = "chk_apply"
  /\ NoSolution
  /\ \E t \in TimeReads :
       /\ now' = t
       /\ answers' = add_answer_record(answers, h.user, ComboKey(h.idxs), 0, t)
  /\ scores' = add_score(scores, h.user, -WRONG_PENALTY)
  /\ Reply("wrong_answer")
  /\ hpc' = "done"
  /\ UNCHANGED <<game, session, engineVars, taskVars, h, obsVars>>

\* lines 255-258: user_already_correct_combo, the record, MSG_ALREADY_SCORED
ChkAlreadyScored ==
  /\ hpc = "chk_apply"
  /\ ~NoSolution
  /\ user_already_correct_combo(answers, h.user, ComboKey(h.idxs))
  /\ \E t \in TimeReads :
       /\ now' = t
       /\ answers' = add_answer_record(answers, h.user, ComboKey(h.idxs), 1, t)
  /\ Reply("already_scored")
  /\ hpc' = "done"
  /\ UNCHANGED <<game, scores, session, engineVars, taskVars, h, obsVars>>

\* `first_solver is not None and first_solver != user.id` for a value the
\* query can return
TakenByOther(ans, user_id, combo_key) ==
  \E f \in get_combo_first_solver(ans, combo_key) : f # user_id

\* lines 259-263: get_combo_first_solver, the record, MSG_ALREADY_TAKEN
ChkAlreadyTaken ==
  /\ hpc = "chk_apply"
  /\ ~NoSolution
  /\ ~user_already_correct_combo(answers, h.user, ComboKey(h.idxs))
  /\ TakenByOther(answers, h.user, ComboKey(h.idxs))
  /\ \E t \in TimeReads :
       /\ now' = t
       /\ answers' = add_answer_record(answers, h.user, ComboKey(h.idxs), 1, t)
  /\ Reply("already_taken")
  /\ hpc' = "done"
  /\ UNCHANGED <<game, scores, session, engineVars, taskVars, h, obsVars>>

\* a variant of the tier that gives every credit the first-answer points
AlwaysFirstPoints(correct_count) == FIRST_CORRECT_POINTS

\* the points of a newly credited answer (line 265)
AwardPoints(correct_count) ==
  IF correct_count = 0 THEN FIRST_CORRECT_POINTS ELSE LATER_CORRECT_POINTS

\* a variant of add_solved_combo that adds nothing
skip_solved_combo(slv, combo_key) == slv

\* a variant of add_solved_combo that keeps the latest key only
replace_solved_combo(slv, combo_key) == {combo_key}

\* GameEngine.add_solved_combo
add_solved_combo(slv, combo_key) == slv \cup {combo_key}

\* lines 264-271: count_correct_answers, add_score, the record,
\* add_solved_combo, MSG_CORRECT_ANSWER, and the all_solved test
ChkCredit ==
  /\ hpc = "chk_apply"
  /\ ~NoSolution
  /\ ~user_already_correct_combo(answers, h.user, ComboKey(h.idxs))
  /\ ~TakenByOther(answers, h.user, ComboKey(h.idxs))
  /\ h' = [h EXCEPT !.points = AwardPoints(count_correct_answers(answers))]
  /\ scores' = add_score(scores, h.user, h'.points)
  /\ \E t \in TimeReads :
       /\ now' = t
       /\ answers' = add_answer_record(answers, h.user, ComboKey(h.idxs), 1, t)
  /\ solved' = add_solved_combo(solved, ComboKey(h.idxs))
  /\ credited' = credited \cup {<<h.user, ComboKey(h.idxs)>>}
  /\ Reply("correct")
  /\ hpc' = IF all_solved(solved', valid) THEN "fin_end" ELSE "done"
  /\ UNCHANGED <<game, session, valid, chat_tasks, chat_reminder_tasks, taskVars,
                 summaries, stale, roundNo, submits, sessions>>

(* ------------------------- finish_round_with_summary ------------------ *)
\* await end_game_db(chat_id)
FinEnd ==
  /\ hpc = "fin_end"
  /\ game' = end_game_db(game)
  /\ hpc' = "fin_cancel"
  /\ UNCHANGED <<answers, scores, session, now, engineVars, taskVars, h, replies,
                 obsVars>>

\* await engine_cancel_timers(chat_id); game = await get_game(chat_id);
\* if not game: return; get_leaderboard; the summary with prefix
\* MSG_ALL_SOLVED_EARLY about the row read
FinCancel ==
  /\ hpc = "fin_cancel"
  /\ SetTimers(engine_cancel_timers(TimerState))
  /\ summaries' = IF game.exists
                    THEN [summaries EXCEPT ![game.round].solved = @ + 1]
                    ELSE summaries
  /\ hpc' = "done"
  /\ UNCHANGED <<storeVars, valid, solved, endGame, h, replies,
                 stale, credited, roundNo, submits, sessions>>

(* ------------------------- specification ------------------------------ *)
Next ==
  \/ \E r \in Rounds : ExpiryCheck(r)
  \/ \E r \in Rounds : ExpiryEnd(r)
  \/ \E r \in Rounds : ExpirySend(r)
  \/ \E r \in Rounds : ReminderWake(r)
  \/ \E r \in Rounds : ReminderCheck(r)
  \/ \E r \in Rounds : ReminderSend(r)
  \/ NewCommand \/ NewSend
  \/ EndCommand \/ EndEnd \/ EndCancel
  \/ \E total \in 0..MaxTotal : NewGameCommand(total)
  \/ EndGameCommand \/ EndGameEnd \/ EndGameCancel
  \/ \E user \in Players, idxs \in SampleLabels : SubmitCommand(user, idxs)
  \/ ChkWrong \/ ChkAlreadyScored \/ ChkAlreadyTaken \/ ChkCredit
  \/ FinEnd \/ FinCancel

Spec == Init /\ [][Next]_vars

\* The event loop runs every task that is ready: a sleep that was not
\* cancelled returns, a task past its sleep goes on to its next await, and
\* cmd_new, once it has stored the game, goes on to engine_set_timer.
\* Nothing obliges a player to send anything.
LiveSpec ==
  /\ Init /\ [][Next]_vars
  /\ WF_vars(NewSend)
  /\ \A r \in Rounds : /\ WF_vars(ReminderWake(r))
                       /\ WF_vars(ExpiryCheck(r))
                       /\ WF_vars(ExpiryEnd(r))

(* ------------------------- generate_solvable_puzzle, step by step ----- *)
\* The call generate_solvable_puzzle(NUM_COUNT, min_n, max_n, target_min,
\* target_max, tries) followed by the table cmd_new builds from its result.
\* The frame of the call is kept in h; hpc is "gen_loop" at the head of
\* `for _ in range(tries)`, "gen_return" when the function has returned and
\* "gen_tabled" after ENGINE.set_valid_combos.

\* values random.randint is asked for lie in 0..MaxValue
MaxValue == 2

\* the largest tries argument
MaxTries == 2

\* the drawn vectors repeat with this period
DrawPeriod == 4

\* (min_n, max_n) with at least one integer in the range
ValueRanges == { r \in (0..MaxValue) \X (0..MaxValue) : r[1] <= r[2] }

\* (target_min, target_max): an empty range, a range no three values reach,
\* a range only some draws reach, and a range most draws reach
TargetRanges == { <<1, 0>>, <<200, 200>>, <<8, 8>>, <<-1, 3>> }

\* [random.randint(min_n, max_n) for _ in range(num_count)]
RandintVectors(min_n, max_n) ==
  { [i \in 1..NUM_COUNT |-> pat[((i - 1) % DrawPeriod) + 1]] :
      pat \in [1..DrawPeriod -> min_n..max_n] }

\* the locals of the call; scan is the table of what the loops over the
\* paths find, kept with the call so that each scan is computed once
GenFrame(r, t, tries, scan) ==
  [cmd |-> "generate", min_n |-> r[1], max_n |-> r[2],
   target_min |-> t[1], target_max |-> t[2], tries |-> tries,
   attempts |-> 0, path |-> "none", nums |-> <<>>, target |-> 0,
   solution |-> <<>>, scan |-> scan]

\* the targets that can come up: those of the ranges and the fallback's sums
ScanTargets ==
  UNION { tr[1]..tr[2] : tr \in TargetRanges } \cup (0..(3 * MaxValue))

\* The scan of the paths for a vector and a target (lines 657-669 of the
\* generator, lines 860-870 of cmd_new: the same loop), for every vector of
\* `vectors` and every target of `targets`: the all_solutions table and its
\* first item (<<>> when the table is empty).
ScanOfPaths(vectors, targets) ==
  { [numbers |-> nums, target |-> t,
     all_solutions |-> AllSolutions(nums, t),
     first |-> IF DOMAIN AllSolutions(nums, t) = {} THEN <<>>
               ELSE FirstSolution(nums, t)]
      : nums \in vectors, t \in targets }

\* the scans, over the targets of the range, in which found_any is set; the
\* shuffle can put any of them first
PossibleTargets(scan, nums, target_min, target_max) ==
  { r \in scan : /\ r.numbers = nums
                        /\ r.target \in target_min..target_max
                        /\ DOMAIN r.all_solutions # {} }

\* a variant of the loop bound that lets the loop run once more
LoopOvershoot(attempts, tries) == attempts > tries

\* `for _ in range(tries)` has no iteration left
LoopExhausted(attempts, tries) == attempts >= tries

GenInit ==
  /\ game = NoGame
  /\ answers = EmptyBag
  /\ scores = NoScores
  /\ session = NoSession
  /\ now = 0
  /\ valid = <<>>
  /\ solved = {}
  /\ chat_tasks = 0
  /\ chat_reminder_tasks = 0
  /\ endPc = [r \in Rounds |-> "none"]
  /\ endGame = [r \in Rounds |-> 0]
  /\ remPc = [r \in Rounds |-> "none"]
  /\ hpc = "gen_loop"
  /\ \E scan \in { ScanOfPaths(RandintVectors(0, MaxValue), ScanTargets) } :
       h \in { GenFrame(r, t, k, scan) :
                 r \in ValueRanges, t \in TargetRanges, k \in 0..MaxTries }
  /\ replies = <<>>
  /\ summaries = [r \in Rounds |-> [timeup |-> 0, solved |-> 0]]
  /\ stale = {}
  /\ credited = {}
  /\ roundNo = 0
  /\ submits = 0
  /\ sessions = 0

\* one iteration of the loop (lines 649-676): a draw, the shuffled scan of
\* the targets, and the return when a target was chosen
GenAttempt ==
  /\ hpc = "gen_loop"
  /\ ~LoopExhausted(h.attempts, h.tries)
  /\ \E nums \in RandintVectors(h.min_n, h.max_n) :
       LET found == PossibleTargets(h.scan, nums, h.target_min, h.target_max)
       IN  IF found = {}
             THEN /\ h' = [h EXCEPT !.attempts = @ + 1]
                  /\ hpc' = "gen_loop"
             ELSE \E r \in found :
                    /\ h' = [h EXCEPT !.attempts = @ + 1, !.nums = nums,
                                      !.target = r.target,
                                      !.solution = r.first,
                                      !.path = "found"]
                    /\ hpc' = "gen_return"
  /\ UNCHANGED <<storeVars, engineVars, taskVars, replies, obsVars>>

\* the fallback after the loop (lines 678-683)
GenFallback ==
  /\ hpc = "gen_loop"
  /\ LoopExhausted(h.attempts, h.tries)
  /\ \E nums \in RandintVectors(h.min_n, h.max_n) :
       h' = [h EXCEPT !.nums = nums,
                      !.target = nums[1] + nums[2] + nums[3],
                      !.solution =
                        [label |-> <<"A", "B", "C">>,
                         expr |-> <<"sum3", Num(nums[1]), Num(nums[2]), Num(nums[3])>>],
                      !.path = "fallback"]
  /\ hpc' = "gen_return"
  /\ UNCHANGED <<storeVars, engineVars, taskVars, replies, obsVars>>

\* cmd_new with the result (lines 851-870): the game row and the
\* all_solutions table handed to ENGINE.set_valid_combos
GenTable ==
  /\ hpc = "gen_return"
  /\ answers' = clear_answers_for_chat(answers)
  /\ \E t \in TimeReads :
       /\ now' = t
       /\ game' = set_game(h.nums, h.target, t + TIME_LIMIT_DEFAULT, h.solution,
                           roundNo + 1)
  /\ valid' = (CHOOSE r \in h.scan :
                 r.numbers = h.nums /\ r.target = h.target).all_solutions
  /\ solved' = {}
  /\ roundNo' = roundNo + 1
  /\ hpc' = "gen_tabled"
  /\ UNCHANGED <<scores, session, chat_tasks, chat_reminder_tasks, taskVars,
                 h, replies, summaries, stale, credited, submits, sessions>>

GenNext == GenAttempt \/ GenFallback \/ GenTable

\* the call is synchronous code: once entered it runs to its return
GenSpec == GenInit /\ [][GenNext]_vars /\ WF_vars(GenNext)

(* ------------------------- single calls of the pure functions --------- *)
\* One call of find_solution_expr, or one evaluation of the adjacency test
\* of message_handler, on arguments drawn from bounded sets.  The frame of
\* the call is kept in h; hpc is "call" before the call, "call_done" after
\* it and "call_repeated" after the same call was made a second time.

\* the longest nums list
MaxLen == 3

\* the integer operands are 0..MaxOperand
MaxOperand == 3

\* the integer targets are -1..MaxTarget
MaxTarget == 6

\* float operands: the integers and one half
SolveValues == { Rat(n) : n \in 0..MaxOperand } \cup { <<1, 2>> }

\* tol as the exponent k of 10^-k: the default 1e-6 and 1.0
SolveTols == { TolExp, 0 }

\* str(x) for a float operand, kept as a token
Val(r) == <<"val", r>>

\* find_solution_expr(nums, [str(x) for x in nums], float(target), tol)
SolveFrames ==
  { [cmd |-> "solve", nums |-> nums, target |-> t, tol |-> k,
     result |-> <<"pending">>, again |-> <<"pending">>]
      : nums \in UNION { [1..n -> SolveValues] : n \in 1..MaxLen },
        t \in -1..MaxTarget, k \in SolveTols }

\* idxs = [ord(ch) - ord('A') for ch in labels], letters A-J
LegalFrames ==
  { [cmd |-> "is_legal", idxs |-> idxs, result |-> <<"pending">>,
     again |-> <<"pending">>]
      : idxs \in [1..3 -> 0..(NUM_COUNT - 1)] }

\* the store, the engine and the tasks as they are after construction
AtRest ==
  /\ game = NoGame
  /\ answers = EmptyBag
  /\ scores = NoScores
  /\ session = NoSession
  /\ now = 0
  /\ valid = <<>>
  /\ solved = {}
  /\ chat_tasks = 0
  /\ chat_reminder_tasks = 0
  /\ endPc = [r \in Rounds |-> "none"]
  /\ endGame = [r \in Rounds |-> 0]
  /\ remPc = [r \in Rounds |-> "none"]
  /\ replies = <<>>
  /\ summaries = [r \in Rounds |-> [timeup |-> 0, solved |-> 0]]
  /\ stale = {}
  /\ credited = {}
  /\ roundNo = 0
  /\ submits = 0
  /\ sessions = 0

CallInit ==
  /\ AtRest
  /\ hpc = "call"
  /\ h \in SolveFrames \cup LegalFrames

\* what the call in the frame returns
CallResult(f) ==
  IF f.cmd = "solve"
    THEN find_solution_expr(f.nums, [k \in 1..Len(f.nums) |-> Val(f.nums[k])],
                            Rat(f.target), f.tol)
    ELSE IsLegal(f.idxs)

\* res = find_solution_expr(...)
SolveCall ==
  /\ hpc = "call" /\ h.cmd = "solve"
  /\ h' = [h EXCEPT !.result = CallResult(h)]
  /\ hpc' = "call_done"
  /\ UNCHANGED <<storeVars, engineVars, taskVars, replies, obsVars>>

\* tuple(sorted(idxs)) in PRECOMPUTED_TRIPLETS_SORTED
IsLegalCall ==
  /\ hpc = "call" /\ h.cmd = "is_legal"
  /\ h' = [h EXCEPT !.result = CallResult(h)]
  /\ hpc' = "call_done"
  /\ UNCHANGED <<storeVars, engineVars, taskVars, replies, obsVars>>

\* the same call once more, on the same arguments
CallAgain ==
  /\ hpc = "call_done"
  /\ h' = [h EXCEPT !.again = CallResult(h)]
  /\ hpc' = "call_repeated"
  /\ UNCHANGED <<storeVars, engineVars, taskVars, replies, obsVars>>

CallNext == SolveCall \/ IsLegalCall \/ CallAgain

CallSpec == CallInit /\ [][CallNext]_vars

(* ------------------------- answers in every letter order -------------- *)
\* The chat without a session, where players send the letters of an
\* adjacent triple in any of the six orders: labels = [m.group(1).upper(),
\* m.group(2).upper(), m.group(3).upper()] keeps the order of the text.
Orderings(idxs) ==
  { <<idxs[p[1]], idxs[p[2]], idxs[p[3]]>> :
      p \in { f \in [1..3 -> 1..3] : \A i, j \in 1..3 : i # j => f[i] # f[j] } }

\* the six orders of DEF and the six orders of GHI
OrderLabels == Orderings(<<3, 4, 5>>) \cup Orderings(<<6, 7, 8>>)

OrderNext ==
  \/ \E r \in Rounds : ExpiryCheck(r)
  \/ \E r \in Rounds : ExpiryEnd(r)
  \/ \E r \in Rounds : ExpirySend(r)
  \/ \E r \in Rounds : ReminderWake(r)
  \/ \E r \in Rounds : ReminderCheck(r)
  \/ \E r \in Rounds : ReminderSend(r)
  \/ NewCommand \/ NewSend
  \/ EndCommand \/ EndEnd \/ EndCancel
  \/ \E user \in Players, idxs \in OrderLabels : SubmitCommand(user, idxs)
  \/ ChkWrong \/ ChkAlreadyScored \/ ChkAlreadyTaken \/ ChkCredit
  \/ FinEnd \/ FinCancel

OrderSpec == Init /\ [][OrderNext]_vars

(* ------------------------- properties --------------------------------- *)
\* the handler finishes check_answer's verdict for h.user and h.idxs
Verdict == hpc = "chk_apply" /\ hpc' # "chk_apply"

\* a step of a timer task, not of a handler
TimerStep == hpc' = hpc /\ replies' = replies /\ h' = h

\* rows of the answers table for (user, key) logged as correct
CorrectRows(user_id, combo_key) ==
  BagCardinality([row \in { x \in BagToSet(answers) :
                              /\ x.user_id = user_id
                              /\ x.expression = combo_key
                              /\ x.correct = 1 } |-> answers[row]])

\* C1: when the expiry task runs concurrently with a submission that credits
\* the last unsolved combination, at most one terminal summary ('time up' or
\* 'all combinations solved') is sent for the round.
C1_OneTerminalSummary ==
  \A r \in Rounds : summaries[r].timeup + summaries[r].solved <= 1

\* C2: within a round at most one player receives points for a key, and once
\* player X is credited for key K a submission of K by another player Y
\* leaves Y's score unchanged and is answered 'already claimed by someone
\* else'.
C2_FirstClaimExclusivity ==
  /\ [](\A a \in credited, b \in credited : a[2] = b[2] => a[1] = b[1])
  /\ [][(Verdict /\ \E x \in Players :
                      x # h.user /\ <<x, ComboKey(h.idxs)>> \in credited)
          => /\ get_user_score(scores', h.user) = get_user_score(scores, h.user)
             /\ replies' = <<"already_taken">>]_vars

\* C3: a player's score rises when the player is credited for a key and
\* never again for that key in the round: every later submission of the key
\* by that player leaves all scores as they are and is answered 'already
\* scored by you'.
C3_ScoringIdempotence ==
  [][Verdict =>
       IF <<h.user, ComboKey(h.idxs)>> \in credited
         THEN /\ replies' = <<"already_scored">>
              /\ scores' = scores
              /\ credited' = credited
         ELSE <<h.user, ComboKey(h.idxs)>> \in credited'
                => get_user_score(scores', h.user) > get_user_score(scores, h.user)]_vars

\* the player was credited for the key and has repeated it twice: the third
\* submission is answered 'already scored' with the score of before
C3_Witness ==
  /\ hpc = "done"
  /\ h.cmd = "submit"
  /\ replies = <<"already_scored">>
  /\ <<h.user, ComboKey(h.idxs)>> \in credited
  /\ CorrectRows(h.user, ComboKey(h.idxs)) >= 3
  /\ get_user_score(scores, h.user) = h.score0
  /\ h.score0 > 0

NewChangesNothing ==
  UNCHANGED <<game, answers, scores, session, valid, solved,
              chat_tasks, chat_reminder_tasks, endPc, remPc, roundNo>>

\* C5 as stated: a /new while the puzzle is active is rejected with 'already
\* in progress' and changes nothing.
C5_AsStated ==
  [][(NewCommand /\ game.exists /\ game.active)
       => replies' = <<"in_progress">> /\ NewChangesNothing]_vars

\* C5: a /new while the puzzle is active is rejected and changes nothing
\* (puzzle, solution table, solved set, answers, timers, session counter);
\* the reason is 'already in progress' unless an active session has used all
\* its rounds, in which case it is 'session complete'.
C5_RejectedWhileActive ==
  [][(NewCommand /\ game.exists /\ game.active)
       => /\ replies' = <<IF SessionComplete(session) THEN "session_complete"
                                                     ELSE "in_progress">>
          /\ hpc' = "done"
          /\ NewChangesNothing]_vars

\* a /new was refused with 'already in progress' during an active round
\* that has answers and running timers
C5_Witness ==
  /\ hpc = "done"
  /\ replies = <<"in_progress">>
  /\ game.exists /\ game.active
  /\ answers # EmptyBag
  /\ chat_tasks = game.round /\ Live(endPc[game.round])

\* C6 as stated: a /new is rejected with 'session complete' whenever a
\* session row exists whose current round equals its total rounds, and
\* nothing changes.
C6_AsStated ==
  [][(NewCommand /\ session.exists /\ session.current_round = session.total_rounds)
       => replies' = <<"session_complete">> /\ NewChangesNothing]_vars

\* C6: a /new is rejected with 'session complete' whenever an active session
\* exists whose current round has reached its total rounds; no puzzle is
\* generated and nothing changes.
C6_SessionComplete ==
  [][(NewCommand /\ session.exists /\ session.active = 1
                 /\ session.current_round >= session.total_rounds)
       => /\ replies' = <<"session_complete">>
          /\ hpc' = "done"
          /\ NewChangesNothing]_vars

\* a /new was refused with 'session complete' between rounds of an active
\* session that has used all its rounds
C6_Witness ==
  /\ hpc = "done"
  /\ replies = <<"session_complete">>
  /\ session.exists /\ session.active = 1
  /\ session.current_round = session.total_rounds
  /\ game.exists /\ ~game.active

\* C7: when cmd_new has started a round the game is active, the answers
\* table of the chat is empty, the solved set is empty, the table of valid
\* combinations is the one computed for the new numbers and target, exactly
\* one expiry task is pending, and a reminder task is pending iff
\* TIME_LIMIT_DEFAULT - 60 > 0.
C7_RoundStart ==
  [][(hpc = "new_send" /\ hpc' = "done")
       => /\ game'.exists /\ game'.active
          /\ answers' = EmptyBag
          /\ solved' = {}
          /\ valid' = AllSolutions(game'.numbers, game'.target)
          /\ { r \in Rounds : Live(endPc'[r]) } = {game'.round}
          /\ endPc'[game'.round] = "sleep" /\ chat_tasks' = game'.round
          /\ { r \in Rounds : Live(remPc'[r]) } =
               IF TIME_LIMIT_DEFAULT - REMIND_LEAD > 0 THEN {game'.round} ELSE {}]_vars

\* a second round has started in a chat whose first round had answers
C7_Witness ==
  /\ hpc = "done"
  /\ replies = <<"question">>
  /\ game.active /\ game.round = 2
  /\ DOMAIN scores # {}
  /\ answers = EmptyBag /\ solved = {}
  /\ endPc[2] = "sleep" /\ remPc[2] = "sleep"

\* C8: in every reachable state at most one expiry task and at most one
\* reminder task of the chat is neither cancelled nor finished.
C8_OneTimerEach ==
  /\ Cardinality({ r \in Rounds : Live(endPc[r]) }) <= 1
  /\ Cardinality({ r \in Rounds : Live(remPc[r]) }) <= 1

\* the second round's timers are pending after the first round timed out
C8_Witness ==
  /\ roundNo = 2
  /\ summaries[1].timeup = 1
  /\ Live(endPc[2]) /\ Live(remPc[2])
  /\ ~Live(endPc[1]) /\ ~Live(remPc[1])

\* C9: a timer armed for round r sends no summary and no reminder, and does
\* not deactivate the game, once a later round of the chat has started.
C9_NoStaleTimer == stale = {}

\* C10: an expiry or reminder task that wakes while the game is absent or
\* inactive returns without sending a message or changing any state, and a
\* task that has returned this way does nothing afterwards.
C10_TimerNoOp ==
  /\ [][\A r \in Rounds :
          /\ (TimerStep /\ endPc[r] = "sleep" /\ endPc'[r] # "sleep"
                /\ (~game.exists \/ ~game.active))
               => /\ endPc' = [endPc EXCEPT ![r] = "noop"]
                  /\ UNCHANGED <<storeVars, engineVars, endGame, remPc, obsVars>>
          /\ (TimerStep /\ remPc[r] = "woke" /\ remPc'[r] # "woke"
                /\ (~game.exists \/ ~game.active))
               => /\ remPc' = [remPc EXCEPT ![r] = "noop"]
                  /\ UNCHANGED <<storeVars, engineVars, endGame, endPc, obsVars>>]_vars
  /\ [][\A r \in Rounds :
          /\ endPc[r] = "noop" => endPc'[r] \in {"noop", "off"}
          /\ remPc[r] = "noop" => remPc'[r] \in {"noop", "off"}]_vars

\* both tasks of a round woke after /end had deactivated the game and before
\* it cancelled them
C10_Witness ==
  \E r \in Rounds :
    /\ endPc[r] = "noop" /\ remPc[r] = "noop"
    /\ game.exists /\ ~game.active
    /\ summaries[r] = [timeup |-> 0, solved |-> 0]

\* C11: when the expiry task finds the game active it makes the game
\* inactive and a 'time up' summary is sent for the round exactly once;
\* from the moment the summary is sent no reminder task of the chat is
\* pending.
C11_TimeoutTransition ==
  /\ [][\A r \in Rounds :
          (TimerStep /\ endPc[r] = "checked" /\ endPc'[r] = "ended")
            => game'.exists /\ ~game'.active]_vars
  /\ [](\A r \in Rounds : summaries[r].timeup <= 1)
  /\ [][\A r \in Rounds :
          (TimerStep /\ endPc[r] = "ended" /\ endPc'[r] = "off")
            => /\ summaries'[endGame[r]].timeup = 1
               /\ \A q \in Rounds : ~Live(remPc'[q])]_vars

\* C12: /end on an active game makes the game inactive, cancels and
\* removes the expiry task and the reminder task, replies with the solution
\* stored in the game row, and changes no score, no answer row and no solved
\* combination; /end with no active game changes nothing in the store, the
\* engine or the tasks.
C12_ManualTermination ==
  [][/\ (EndCommand /\ (~game.exists \/ ~game.active))
          => /\ replies' = <<"no_active_game">> /\ hpc' = "done"
             /\ UNCHANGED <<storeVars, engineVars, taskVars, obsVars>>
     /\ (EndCommand /\ game.exists /\ game.active)
          => /\ hpc' = "end_end"
             /\ UNCHANGED <<scores, answers, solved>>
     /\ (hpc = "end_end" /\ hpc' # "end_end")
          => /\ game'.exists /\ ~game'.active
             /\ UNCHANGED <<scores, answers, solved>>
     /\ (hpc = "end_cancel" /\ hpc' # "end_cancel")
          => /\ ~game'.active
             /\ chat_tasks' = 0 /\ chat_reminder_tasks' = 0
             /\ \A r \in Rounds : ~Live(endPc'[r]) /\ ~Live(remPc'[r])
             /\ replies' = <<"terminated">>
             /\ h.game.solution = game'.solution
             /\ UNCHANGED <<scores, answers, solved>>
     /\ (h.cmd = "end" /\ hpc' = hpc)
          => UNCHANGED <<scores, answers, solved>>]_vars

\* /end has terminated a round in which an answer was recorded and scored
\* while its reminder was still asleep
C12_Witness ==
  /\ hpc = "done" /\ replies = <<"terminated">>
  /\ game.exists /\ ~game.active
  /\ chat_tasks = 0 /\ chat_reminder_tasks = 0
  /\ answers # EmptyBag /\ scores # NoScores /\ solved # {}
  /\ \E r \in Rounds : remPc[r] = "off" /\ endPc[r] = "off" /\ summaries[r].timeup = 0

\* C13: a three-letter message that arrives while the chat has no game row,
\* or a game row that is not active, adds no answer row, changes no score,
\* leaves the solved combinations alone and sends no reply.
C13_SubmitWithoutRound ==
  [][\A user \in Players, idxs \in SampleLabels :
       (SubmitCommand(user, idxs) /\ (~game.exists \/ ~game.active))
         => /\ UNCHANGED <<answers, scores, solved, game, valid>>
            /\ replies' = <<>>
            /\ hpc' = "done"]_vars

\* a message has been ignored after the round it was meant for had ended
\* with answers and scores on record
C13_Witness ==
  /\ hpc = "done" /\ replies = <<>>
  /\ game.exists /\ ~game.active
  /\ answers # EmptyBag /\ scores # NoScores

\* the arrangements of a triple in non-decreasing order
Ascending(idxs) ==
  { q \in { <<idxs[p[1]], idxs[p[2]], idxs[p[3]]>> :
              p \in { f \in [1..3 -> 1..3] : \A i, j \in 1..3 : i # j => f[i] # f[j] } } :
      q[1] <= q[2] /\ q[2] <= q[3] }

\* C14: three letters whose sorted indices are not one of the nine adjacent
\* triples, sent while a round is active, add exactly one answer row, with
\* correct = 0 and the letters in ascending order as its key, get the reply
\* that the points are not adjacent, and change no score and no solved
\* combination.
C14_IllegalAdjacency ==
  [][\A user \in Players, idxs \in SampleLabels :
       (/\ SubmitCommand(user, idxs)
        /\ game.exists /\ game.active
        /\ Sorted3(idxs) \notin PRECOMPUTED_TRIPLETS_SORTED)
         => /\ \E q \in Ascending(idxs), t \in 0..MaxNow :
                 answers' = answers (+) SetToBag({[user_id |-> user,
                                                   expression |-> LabelOf(q),
                                                   correct |-> 0, ts |-> t]})
            /\ BagCardinality(answers') = BagCardinality(answers) + 1
            /\ replies' = <<"illegal_adjacency">>
            /\ hpc' = "done"
            /\ UNCHANGED <<scores, solved, game, valid>>]_vars

\* BAA has been rejected for a player who holds a score, in a round with a
\* solved combination
C14_Witness ==
  /\ hpc = "done" /\ replies = <<"illegal_adjacency">>
  /\ h.idxs = <<1, 0, 0>>
  /\ game.active /\ solved # {}
  /\ h.user \in DOMAIN scores
  /\ \E row \in BagToSet(answers) :
       row.user_id = h.user /\ row.expression = <<"A", "A", "B">> /\ row.correct = 0

\* C15: when check_answer decides an adjacent triple whose three values
\* cannot reach the target, it adds exactly one answer row with correct = 0,
\* lowers the sender's score by WRONG_PENALTY (a sender without a score row
\* gets -WRONG_PENALTY), changes no other score, and leaves the solved
\* combinations and the game row as they are; the handler is finished, so
\* the next message is taken.
C15_WrongAnswer ==
  [][(/\ hpc = "chk_apply" /\ hpc' # "chk_apply"
      /\ Sorted3(h.idxs) \in PRECOMPUTED_TRIPLETS_SORTED
      /\ SolvePath(h.game.numbers, h.idxs, h.game.target) = None)
       => /\ \E q \in Ascending(h.idxs), t \in 0..MaxNow :
               answers' = answers (+) SetToBag({[user_id |-> h.user,
                                                 expression |-> LabelOf(q),
                                                 correct |-> 0, ts |-> t]})
          /\ BagCardinality(answers') = BagCardinality(answers) + 1
          /\ DOMAIN scores' = DOMAIN scores \cup {h.user}
          /\ scores'[h.user] =
               (IF h.user \in DOMAIN scores THEN scores[h.user] ELSE 0) - WRONG_PENALTY
          /\ \A u \in DOMAIN scores : u # h.user => scores'[u] = scores[u]
          /\ replies' = <<"wrong_answer">>
          /\ hpc' = "done"
          /\ UNCHANGED <<solved, game, valid>>]_vars

\* a player without a score row has been penalised for GHI in an active
\* round while the other player holds a score
C15_Witness ==
  /\ hpc = "done" /\ replies = <<"wrong_answer">>
  /\ h.idxs = <<6, 7, 8>>
  /\ game.active
  /\ h.score0 = 0 /\ scores[h.user] = -WRONG_PENALTY
  /\ \E u \in DOMAIN scores : u # h.user
  /\ BagCardinality(answers) >= 2

\* C16: a credited answer raises the sender's score by FIRST_CORRECT_POINTS
\* when the answers table holds no row with correct = 1 at that moment, and
\* by LATER_CORRECT_POINTS otherwise; the table holds no such row exactly
\* when nobody has been credited in the round yet, so FIRST_CORRECT_POINTS
\* goes to the first credit of a round and to no other, whatever the
\* combination.
C16_AwardTier ==
  [][(Verdict /\ replies' = <<"correct">>)
       => LET zero   == \A row \in BagToSet(answers) : row.correct # 1
              before == IF h.user \in DOMAIN scores THEN scores[h.user] ELSE 0
              points == scores'[h.user] - before
          IN  /\ zero => points = FIRST_CORRECT_POINTS
              /\ ~zero => points = LATER_CORRECT_POINTS
              /\ zero <=> credited = {}
              /\ credited' # credited
              /\ h'.points = points]_vars

\* the second credit of a round went to another player for another
\* combination, at LATER_CORRECT_POINTS
C16_Witness ==
  /\ replies = <<"correct">>
  /\ h.points = LATER_CORRECT_POINTS
  /\ Cardinality(credited) = 2
  /\ \E a \in credited, b \in credited : a[1] # b[1] /\ a[2] # b[2]
  /\ \E u \in DOMAIN scores : scores[u] = FIRST_CORRECT_POINTS
  /\ scores[h.user] = LATER_CORRECT_POINTS

\* C17: the solved set never has more keys than the table of valid
\* combinations, and every key in it is a key of the table; a step either
\* keeps every solved key or is the start of a round, which empties the set.
C17_SolvedSetBound ==
  /\ [](/\ Cardinality(solved) <= Cardinality(DOMAIN valid)
        /\ solved \subseteq DOMAIN valid)
  /\ [][\/ solved \subseteq solved'
        \/ /\ solved' = {}
           /\ roundNo' = roundNo + 1
           /\ game'.active /\ game'.round = roundNo']_vars

\* the first round was solved out, the second round started with an empty
\* solved set, and one key of its table of two has been solved since
C17_Witness ==
  /\ roundNo = 2
  /\ summaries[1].solved = 1
  /\ Cardinality(DOMAIN valid) = 2
  /\ Cardinality(solved) = 1

\* the value of an expression tree as a fraction; <<0, 0>> when a division
\* by zero occurs in it
RECURSIVE Eval(_)
Eval(e) ==
  IF e[1] = "num" THEN Rat(e[2])
  ELSE IF e[1] = "val" THEN e[2]
  ELSE LET a == Eval(e[2])
           b == Eval(e[3])
       IN  IF a[2] = 0 \/ b[2] = 0 THEN <<0, 0>>
           ELSE IF e[1] = "+" THEN RAdd(a, b)
           ELSE IF e[1] = "-" THEN RSub(a, b)
           ELSE IF e[1] = "*" THEN RMul(a, b)
           ELSE IF b[1] = 0 THEN <<0, 0>>
           ELSE RDiv(a, b)

\* the numbers an expression tree mentions, as a bag
RECURSIVE Leaves(_)
Leaves(e) ==
  IF e[1] \in {"num", "val"} THEN SetToBag({e[2]})
  ELSE Leaves(e[2]) (+) Leaves(e[3])

\* every value one operation makes of x and y
Combine(x, y) ==
  {RAdd(x, y), RSub(x, y), RSub(y, x), RMul(x, y)}
    \cup (IF y[1] # 0 THEN {RDiv(x, y)} ELSE {})
    \cup (IF x[1] # 0 THEN {RDiv(y, x)} ELSE {})

\* some arithmetic expression that uses each of the three values once has
\* exactly the value target
Reaches(vals, target) ==
  \E i, j, k \in 1..3 :
    /\ i # j /\ i # k /\ j # k
    /\ \E v \in Combine(Rat(vals[i]), Rat(vals[j])) :
         \E w \in Combine(v, Rat(vals[k])) : REq(w, Rat(target))

\* C18: in the table built for a started round, the keys are exactly the
\* labels, letters ascending, of the adjacent triples whose three values
\* reach the target; each stored expression uses the three values of its
\* triple and evaluates to the target within the tolerance; an adjacent
\* triple whose values do not reach the target has no entry.
C18_SolutionTable ==
  hpc = "gen_tabled" =>
    /\ DOMAIN valid =
         { LabelOf(p) : p \in { q \in PRECOMPUTED_TRIPLETS_SORTED :
             Reaches([k \in 1..3 |-> game.numbers[q[k] + 1]], game.target) } }
    /\ \A p \in PRECOMPUTED_TRIPLETS_SORTED :
         LabelOf(p) \in DOMAIN valid =>
           /\ Eval(valid[LabelOf(p)])[2] # 0
           /\ RNear(Eval(valid[LabelOf(p)]), Rat(game.target), TolExp)
           /\ Leaves(valid[LabelOf(p)]) =
                SetToBag({game.numbers[p[1] + 1]})
                  (+) SetToBag({game.numbers[p[2] + 1]})
                  (+) SetToBag({game.numbers[p[3] + 1]})

\* a table with an entry whose expression divides, next to an adjacent
\* triple that has no entry
C18_Witness ==
  /\ hpc = "gen_tabled"
  /\ \E lab \in DOMAIN valid : valid[lab][1] = "/"
  /\ \E p \in PRECOMPUTED_TRIPLETS_SORTED : LabelOf(p) \notin DOMAIN valid

\* C19: the table built from the generator's numbers and target has at
\* least one entry when the generator returned from its loop; when it
\* returned from the fallback (target = sum of the first three numbers,
\* solution labelled ABC), the triple of the first three positions is an
\* adjacent triple and ABC is a key of the table.
C19_PlayableResult ==
  hpc = "gen_tabled" =>
    /\ h.path = "found" => DOMAIN valid # {}
    /\ h.path = "fallback" =>
         /\ game.target = game.numbers[1] + game.numbers[2] + game.numbers[3]
         /\ game.solution.label = <<"A", "B", "C">>
         /\ <<0, 1, 2>> \in PRECOMPUTED_TRIPLETS_SORTED
         /\ game.solution.label \in DOMAIN valid

\* C20: for every non-empty value range, every target range (empty and
\* unreachable ones included) and every tries bound, the generator makes at
\* most `tries` draws in its loop, takes the fallback only after exactly
\* `tries` failed draws, and returns: the call always leaves its loop, and
\* what it returns has NUM_COUNT numbers, each within min_n..max_n, a
\* target and a sample solution.
C20_GenerateTotal ==
  /\ [](h.attempts <= h.tries)
  /\ [](hpc \in {"gen_return", "gen_tabled"} =>
          /\ h.path \in {"found", "fallback"}
          /\ h.path = "fallback" => h.attempts = h.tries
          /\ h.path = "found" => h.target \in h.target_min..h.target_max
          /\ Len(h.nums) = NUM_COUNT
          /\ \A i \in 1..NUM_COUNT : h.nums[i] \in h.min_n..h.max_n
          /\ h.target \in Int
          /\ h.solution # <<>>)
  /\ <>(hpc # "gen_loop")

\* two draws found no target in a range nothing reaches, and the fallback
\* returned
C20_Witness ==
  /\ hpc = "gen_return"
  /\ h.path = "fallback"
  /\ h.tries >= 2 /\ h.attempts = h.tries
  /\ h.target_min = 200 /\ h.min_n < h.max_n

\* the k-th smallest element of a set of integers
Kth(A, k) == CHOOSE i \in A : Cardinality({ j \in A : j < i }) = k - 1

\* the entries of vals at the positions A, in order
Pick(vals, A) == [k \in 1..Cardinality(A) |-> vals[Kth(A, k)]]

\* every value of an arithmetic expression that uses each entry of vals
\* exactly once: split the entries in two groups and combine a value of one
\* group with a value of the other
RECURSIVE ReachSet(_)
ReachSet(vals) ==
  IF Len(vals) = 1 THEN {vals[1]}
  ELSE UNION { UNION { Combine(x, y) :
                         x \in ReachSet(Pick(vals, A)),
                         y \in ReachSet(Pick(vals, (1..Len(vals)) \ A)) }
               : A \in { B \in SUBSET (1..Len(vals)) :
                           1 \in B /\ B # 1..Len(vals) } }

\* the operands of a call, as a bag
BagOfSeq(vals) ==
  LET vs == { vals[k] : k \in 1..Len(vals) }
  IN  [v \in vs |-> Cardinality({ k \in 1..Len(vals) : vals[k] = v })]

\* C21: a call of find_solution_expr on one to MaxLen operands returns an
\* expression that uses every operand exactly once and whose value is
\* within tol of the target; with the default tol it returns an expression
\* exactly when some expression over all the operands, each used once, with
\* + - * /, has the target as its value, and None otherwise.
C21_SolverOracle ==
  (hpc = "call_done" /\ h.cmd = "solve") =>
    /\ h.result # None =>
         /\ Eval(h.result[1])[2] # 0
         /\ RNear(Eval(h.result[1]), Rat(h.target), h.tol)
         /\ Leaves(h.result[1]) = BagOfSeq(h.nums)
    /\ h.tol = TolExp =>
         (h.result # None <=> \E w \in ReachSet(h.nums) : REq(w, Rat(h.target)))

\* a call on three operands returned an expression whose last operation
\* is a division
C21_Witness ==
  /\ hpc = "call_done" /\ h.cmd = "solve"
  /\ Len(h.nums) = 3 /\ h.tol = TolExp
  /\ h.result # None
  /\ h.result[1][1] = "/"
  /\ h.nums[1] # h.nums[2] /\ h.nums[2] # h.nums[3]

\* the concatenation of a sequence of sequences
RECURSIVE Concat(_)
Concat(ss) == IF ss = <<>> THEN <<>> ELSE Head(ss) \o Concat(Tail(ss))

\* the pairs (i, j) of positions with i < j, in index order
PairsInOrder(n) ==
  LET P == { pr \in (1..n) \X (1..n) : pr[1] < pr[2] }
      before(x, y) == x[1] < y[1] \/ (x[1] = y[1] /\ x[2] < y[2])
  IN  [k \in 1..Cardinality(P) |->
         CHOOSE x \in P : Cardinality({ y \in P : before(y, x) }) = k - 1]

\* the results of one pair in the order add, multiply, left - right,
\* right - left, left / right, right / left, a division where it is defined
OpsInOrder(a, b, ea, eb) ==
  << <<RAdd(a, b), <<"+", ea, eb>> >>, <<RMul(a, b), <<"*", ea, eb>> >>,
     <<RSub(a, b), <<"-", ea, eb>> >>, <<RSub(b, a), <<"-", eb, ea>> >> >>
  \o (IF b[1] # 0 THEN << <<RDiv(a, b), <<"/", ea, eb>> >> >> ELSE <<>>)
  \o (IF a[1] # 0 THEN << <<RDiv(b, a), <<"/", eb, ea>> >> >> ELSE <<>>)

\* every complete reduction of vals to one value, with its expression, in
\* the order in which the enumeration reaches it
RECURSIVE Outcomes(_, _)
Outcomes(vals, toks) ==
  IF Len(vals) = 1 THEN << <<vals[1], toks[1]>> >>
  ELSE LET n == Len(vals)
           pairs == PairsInOrder(n)
           rest(x, pr) == Pick(x, (1..n) \ {pr[1], pr[2]})
           ops(pr) == OpsInOrder(vals[pr[1]], vals[pr[2]], toks[pr[1]], toks[pr[2]])
       IN  Concat([p \in 1..Len(pairs) |->
             Concat([c \in 1..Len(ops(pairs[p])) |->
               Outcomes(rest(vals, pairs[p]) \o <<ops(pairs[p])[c][1]>>,
                        rest(toks, pairs[p]) \o <<ops(pairs[p])[c][2]>>)])])

\* the positions of the outcomes within tol of the target
Hits(outs, target, tol) ==
  { k \in 1..Len(outs) : RNear(outs[k][1], Rat(target), tol) }

\* C22: the expression a call of find_solution_expr returns is the first
\* success of the enumeration that takes the pairs (i, j), i < j, in index
\* order and, for each pair, add, multiply, left - right, right - left,
\* left / right, right / left; a second call with the same arguments
\* returns the same expression.
C22_FirstInOrder ==
  /\ (hpc \in {"call_done", "call_repeated"} /\ h.cmd = "solve") =>
       LET outs == Outcomes(h.nums, [k \in 1..Len(h.nums) |-> Val(h.nums[k])])
           hits == Hits(outs, h.target, h.tol)
       IN  IF hits = {} THEN h.result = None
           ELSE h.result = Some(outs[CHOOSE k \in hits : \A o \in hits : k <= o][2])
  /\ (hpc = "call_repeated" /\ h.cmd = "solve") => h.again = h.result

\* a call on three operands was repeated; several reductions reach the
\* target with different expressions, and the one returned multiplies
C22_Witness ==
  /\ hpc = "call_repeated" /\ h.cmd = "solve"
  /\ Len(h.nums) = 3 /\ h.tol = TolExp
  /\ h.result # None /\ h.result[1][1] = "*"
  /\ LET outs == Outcomes(h.nums, [k \in 1..Len(h.nums) |-> Val(h.nums[k])])
     IN  \E k1, k2 \in Hits(outs, h.target, h.tol) : outs[k1][2] # outs[k2][2]

\* the index of position p of row r in the layout 0 / 1 2 / 3 4 5 / 6 7 8 9
Cell(r, p) == (r * (r + 1)) \div 2 + p

\* three consecutive cells of one row
HorizontalLines ==
  { {Cell(x[1], x[2]), Cell(x[1], x[2] + 1), Cell(x[1], x[2] + 2)}
      : x \in { y \in (0..3) \X (0..3) : y[2] + 2 <= y[1] } }

\* three cells of consecutive rows at the same position
LeftDiagonals ==
  { {Cell(x[1], x[2]), Cell(x[1] + 1, x[2]), Cell(x[1] + 2, x[2])}
      : x \in { y \in (0..3) \X (0..3) : y[1] + 2 <= 3 /\ y[2] <= y[1] } }

\* three cells of consecutive rows, the position growing by one
RightDiagonals ==
  { {Cell(x[1], x[2]), Cell(x[1] + 1, x[2] + 1), Cell(x[1] + 2, x[2] + 2)}
      : x \in { y \in (0..3) \X (0..3) : y[1] + 2 <= 3 /\ y[2] <= y[1] } }

\* the indices of a triple, as a set
Cells(t) == {t[1], t[2], t[3]}

\* C23: PRECOMPUTED_TRIPLETS has exactly nine triples, each of three
\* distinct indices in 0..9, no two with the same sorted form: the three
\* horizontal lines, the three left diagonals and the three right diagonals
\* of the layout; and the adjacency test is true of three indices exactly
\* when they are, in some order, the three indices of one of the nine.
C23_AdjacencyComplete ==
  /\ Len(PRECOMPUTED_TRIPLETS) = 9
  /\ \A k \in 1..Len(PRECOMPUTED_TRIPLETS) :
       /\ Cardinality(Cells(PRECOMPUTED_TRIPLETS[k])) = 3
       /\ Cells(PRECOMPUTED_TRIPLETS[k]) \subseteq 0..(NUM_COUNT - 1)
  /\ \A k1, k2 \in 1..Len(PRECOMPUTED_TRIPLETS) :
       k1 # k2 => Cells(PRECOMPUTED_TRIPLETS[k1]) # Cells(PRECOMPUTED_TRIPLETS[k2])
  /\ Cardinality(HorizontalLines) = 3
  /\ Cardinality(LeftDiagonals) = 3
  /\ Cardinality(RightDiagonals) = 3
  /\ { Cells(PRECOMPUTED_TRIPLETS[k]) : k \in 1..Len(PRECOMPUTED_TRIPLETS) }
       = HorizontalLines \cup LeftDiagonals \cup RightDiagonals
  /\ (hpc \in {"call_done", "call_repeated"} /\ h.cmd = "is_legal") =>
       (h.result <=>
          /\ Cardinality(Cells(h.idxs)) = 3
          /\ \E k \in 1..Len(PRECOMPUTED_TRIPLETS) :
               Cells(h.idxs) = Cells(PRECOMPUTED_TRIPLETS[k]))

\* the test has accepted the indices of a diagonal given in descending order
C23_Witness ==
  /\ hpc = "call_done" /\ h.cmd = "is_legal"
  /\ h.result = TRUE
  /\ h.idxs[1] > h.idxs[2] /\ h.idxs[2] > h.idxs[3]
  /\ Cells(h.idxs) \in LeftDiagonals

\* the score a player holds: 0 without a row
ScoreOf(sc, u) == IF u \in DOMAIN sc THEN sc[u] ELSE 0

\* C24: the scores table changes only in three kinds of step: a credited
\* answer, which raises the sender's score by FIRST_CORRECT_POINTS or
\* LATER_CORRECT_POINTS and nobody else's; an answer without a solution,
\* which lowers the sender's score by WRONG_PENALTY and nobody else's; and
\* /newgame, which deletes every score of the chat.  /new, /end, the expiry
\* task, the full-solve end, the reminder and /endgame change no score.
C24_ScoreFrame ==
  [][/\ scores' # scores =>
          \/ /\ Verdict /\ replies' = <<"correct">>
          \/ /\ Verdict /\ replies' = <<"wrong_answer">>
          \/ /\ Free /\ replies' = <<"newgame_intro">> /\ scores' = NoScores
     /\ (Verdict /\ replies' = <<"correct">>) =>
          /\ ScoreOf(scores', h.user) - ScoreOf(scores, h.user)
               \in {FIRST_CORRECT_POINTS, LATER_CORRECT_POINTS}
          /\ \A u \in Players \ {h.user} :
               (u \in DOMAIN scores' <=> u \in DOMAIN scores)
                 /\ ScoreOf(scores', u) = ScoreOf(scores, u)
     /\ (Verdict /\ replies' = <<"wrong_answer">>) =>
          /\ ScoreOf(scores', h.user) - ScoreOf(scores, h.user) = -WRONG_PENALTY
          /\ \A u \in Players \ {h.user} :
               (u \in DOMAIN scores' <=> u \in DOMAIN scores)
                 /\ ScoreOf(scores', u) = ScoreOf(scores, u)]_vars

\* /newgame has deleted the scores of a chat in which an answer had been
\* credited, while the round is still active
C24_Witness ==
  /\ hpc = "done" /\ replies = <<"newgame_intro">>
  /\ scores = NoScores
  /\ session.exists /\ session.current_round = 0
  /\ game.active
  /\ \E row \in BagToSet(answers) : row.correct = 1

\* C27: while a session is active its round counter stays within
\* 0..total_rounds.  A /new that starts a round under an active session
\* raises the counter by exactly 1, a refused /new leaves the session row
\* as it is, and the counter changes in no other step except /newgame,
\* which sets it to 0: so the counter is the number of rounds started since
\* the session began, and that number never exceeds total_rounds.
C27_RoundCounter ==
  /\ []((session.exists /\ session.active = 1) =>
          (0 <= session.current_round
             /\ session.current_round <= session.total_rounds))
  /\ [][/\ (NewCommand /\ hpc' = "new_send"
                       /\ session.exists /\ session.active = 1) =>
              /\ session'.current_round = session.current_round + 1
              /\ session'.total_rounds = session.total_rounds
              /\ session'.active = 1
        /\ (NewCommand /\ hpc' = "done") => session' = session
        /\ (session.exists /\ session'.exists
              /\ session'.current_round # session.current_round) =>
              \/ NewCommand /\ hpc' = "new_send" /\ session.active = 1
              \/ Free /\ replies' = <<"newgame_intro">>
                      /\ session'.current_round = 0]_vars

\* a round has been started under an active session that began after an
\* earlier round: the counter shows 1 while the chat is in its second round
C27_Witness ==
  /\ hpc = "new_send"
  /\ session.exists /\ session.active = 1
  /\ session.current_round = 1
  /\ roundNo = 2

\* C30: check_answer has no effect once the round has ended: when the game
\* row is no longer active at the moment the verdict is applied (the expiry
\* task ended the round after the handler's reads of the active flag), no
\* score changes, no answer record is written, the solved set stays as it
\* is, no 'correct' reply is sent and no 'all solved' summary follows.
C30_NoEffectAfterEnd ==
  [][(Verdict /\ game.exists /\ ~game.active) =>
       /\ scores' = scores
       /\ answers' = answers
       /\ solved' = solved
       /\ replies' # Append(replies, "correct")
       /\ hpc' # "fin_end"]_vars

\* C28: the sample solution stored in the game row of a started round is a
\* solution of an adjacent triple of that round: its label is the label of
\* one of the nine adjacent triples, its expression uses the three values
\* at that triple and evaluates to the target within the tolerance, and when
\* the generator returned from its loop the table of the round holds that
\* expression under that label.
C28_SampleSolution ==
  hpc = "gen_tabled" =>
    \E p \in PRECOMPUTED_TRIPLETS_SORTED :
      /\ LabelOf(p) = game.solution.label
      /\ Eval(game.solution.expr)[2] # 0
      /\ RNear(Eval(game.solution.expr), Rat(game.target), TolExp)
      /\ Leaves(game.solution.expr) =
           SetToBag({game.numbers[p[1] + 1]})
             (+) SetToBag({game.numbers[p[2] + 1]})
             (+) SetToBag({game.numbers[p[3] + 1]})
      /\ h.path = "found" =>
           /\ game.solution.label \in DOMAIN valid
           /\ valid[game.solution.label] = game.solution.expr

\* every division in the expression e has a divisor whose value is not
\* zero and is not below 10^-k in absolute value
RECURSIVE DivisorsAtLeast(_, _)
DivisorsAtLeast(e, k) ==
  IF e[1] \in {"num", "val"} THEN TRUE
  ELSE /\ DivisorsAtLeast(e[2], k)
       /\ DivisorsAtLeast(e[3], k)
       /\ e[1] = "/" =>
            LET b == Eval(e[3])
            IN  /\ b[2] # 0
                /\ b[1] # 0
                /\ ~BelowPow10(Abs(b[1]), Abs(b[2]), k)

\* C29: find_solution_expr divides by b only when abs(b) is not below the
\* tol it was called with, the tolerance of the comparison with the target:
\* no expression it returns contains a division whose divisor is below tol,
\* and none contains a division by zero.
C29_DivisionGuard ==
  (hpc # "call" /\ h.cmd = "solve" /\ h.result # None) =>
    DivisorsAtLeast(h.result[1], h.tol)

\* what check_answer replies to `user` for the letters in the order q, in
\* the current state of the table and the answers
ReplyFor(user, q) ==
  IF LookupSolution(valid, h.game.numbers, h.game.target, q) = None
    THEN "wrong_answer"
  ELSE IF \E x \in BagToSet(answers) :
            x.user_id = user /\ x.correct = 1 /\ x.expression \in { LabelOf(a) : a \in Ascending(q) }
    THEN "already_scored"
  ELSE IF \E x \in BagToSet(answers) :
            x.user_id # user /\ x.correct = 1 /\ x.expression \in { LabelOf(a) : a \in Ascending(q) }
    THEN "already_taken"
  ELSE "correct"

\* C26: the verdict on three letters of an adjacent triple is the one every
\* other order of the same letters gets in the same state, although the
\* table is read with the letters as sent and the solver is called on the
\* values in that order when the table has no such key: the same reply, the
\* same change of the sender's score, one answer row whose key is the
\* letters in ascending order, and the same change of the solved set.
C26_OrderIndependence ==
  [][(Verdict /\ IsLegal(h.idxs)) =>
       \A q \in Orderings(h.idxs) :
         LET reply == ReplyFor(h.user, q)
             key == LabelOf(CHOOSE a \in Ascending(q) : TRUE)
             delta == ScoreOf(scores', h.user) - ScoreOf(scores, h.user)
         IN  /\ replies' = <<reply>>
             /\ \E t \in 0..MaxNow :
                  answers' = answers (+) SetToBag({[user_id |-> h.user, expression |-> key,
                                                    correct |-> IF reply = "wrong_answer" THEN 0 ELSE 1,
                                                    ts |-> t]})
             /\ reply = "wrong_answer" => delta = -WRONG_PENALTY /\ solved' = solved
             /\ reply \in {"already_scored", "already_taken"} =>
                  delta = 0 /\ solved' = solved
             /\ reply = "correct" =>
                  /\ delta = (IF \E x \in BagToSet(answers) : x.correct = 1
                                THEN LATER_CORRECT_POINTS ELSE FIRST_CORRECT_POINTS)
                  /\ solved' = solved \cup {key}]_vars

\* letters sent in an order that is no key of the table were credited after
\* the direct call of the solver, and recorded under the ascending key
C26_Witness ==
  /\ hpc \in {"done", "fin_end"}
  /\ replies = <<"correct">>
  /\ h.idxs = <<5, 3, 4>>
  /\ LabelOf(h.idxs) \notin DOMAIN valid
  /\ <<"D", "E", "F">> \in solved
  /\ \E x \in BagToSet(answers) :
       x.user_id = h.user /\ x.expression = <<"D", "E", "F">> /\ x.correct = 1

\* C25: when the tasks the event loop holds are run, every round that is
\* active is at some later time no longer active; and whatever answers,
\* reminders and refused /new commands occur, as long as the round is
\* active after cmd_new armed its timers, the engine holds the expiry task
\* of that round and the task is still before its end_game_db.
C25_RoundEnds ==
  /\ \A r \in Rounds :
       (game.active /\ game.round = r) ~> ~(game.active /\ game.round = r)
  /\ []((game.active /\ hpc # "new_send") =>
          /\ chat_tasks = game.round
          /\ endPc[game.round] \in {"sleep", "checked"})

\* the round is still active and its expiry task is about to end it, after
\* an answer was recorded, the reminder was sent and a /new was refused
C25_Witness ==
  /\ game.active
  /\ hpc = "done" /\ replies = <<"in_progress">>
  /\ answers # EmptyBag
  /\ remPc[game.round] = "off"
  /\ chat_tasks = game.round
  /\ endPc[game.round] = "checked"

\* C31: check_answer replies 'already scored' to a player for a key only
\* when that player was credited points for that key earlier in the round;
\* a player whose answers for the key were so far all replied 'already
\* taken' is replied 'already taken' again.
C31_AlreadyScoredOnlyIfCredited ==
  [][(Verdict /\ replies' = <<"already_scored">>) =>
       <<h.user, ComboKey(h.idxs)>> \in credited]_vars

\* C32: while no handler is in progress, the solved set the engine keeps
\* for the chat is the set of the distinct keys that have a row with
\* correct = 1 in the answers table, whatever rounds were started, answers
\* sent and rounds ended.
C32_CacheStoreAgreement ==
  Free => solved = get_solved_combo_keys(answers)

\* a key one player was credited for and the other was replied 'already
\* taken' for: two rows with correct = 1, one key in the solved set
C32_Witness ==
  /\ hpc = "done" /\ replies = <<"already_taken">>
  /\ solved = {<<"D", "E", "F">>}
  /\ \A u \in Players :
       \E x \in BagToSet(answers) :
         x.user_id = u /\ x.correct = 1 /\ x.expression = <<"D", "E", "F">>
  /\ Cardinality(credited) = 1

=============================================================================
